---- MODULE Spec2Model ----
(***************************************************************************)
(* Model of the inventory domain of src/main.py: the Product classes       *)
(* (Electronics, Grocery, Clothing), the Inventory store over an           *)
(* insertion-ordered dict, and its JSON persistence.                       *)
(*                                                                         *)
(* Representation.                                                         *)
(*  - A Python object is a record whose "class" field is its class name    *)
(*    and whose other fields are the instance attributes.                  *)
(*  - A JSON object is a record holding exactly the keys present in it, a  *)
(*    JSON array a sequence.  A file is [kind, items]: kind "absent" (no   *)
(*    such path), "garbage" (not JSON), "number" (valid JSON that is not   *)
(*    an array) or "array".                                                *)
(*  - The dict Inventory._products is a sequence of [key, val] entries in  *)
(*    insertion order, as a Python dict is.                                *)
(*  - A date string "YYYY-MM-DD" is the triple <<Y, M, D>> of its fields;  *)
(*    a datetime is <<Y, M, D, t>>, t the time elapsed since midnight.     *)
(*  - Prices are integers (the arithmetic of price * quantity is exact).   *)
(*  - A raised exception is its class name and message; exc = "" is a      *)
(*    normal return.                                                       *)
(***************************************************************************)
EXTENDS Integers, Sequences, FiniteSets, TLC

VARIABLES
    products,   \* Inventory._products
    files,      \* the file system: path -> file
    now,        \* the wall clock read by datetime.today()
    last,       \* the most recent call of the Inventory API and its outcome
    pre,        \* history: _products as it was before that call
    saved,      \* history: path -> the _products a successful save wrote there
    calls       \* number of API calls made so far

vars == <<products, files, now, last, pre, saved, calls>>

(***************************************************************************)
(* Bounds of the exploration.                                              *)
(***************************************************************************)
MaxStock == 2      \* restock is explored while the stock stays <= MaxStock
MaxCalls == 4      \* every sequence of at most MaxCalls API calls is explored

(***************************************************************************)
(* Outcomes of a call.                                                     *)
(***************************************************************************)
Return(s) == [state |-> s, exc |-> "", msg |-> ""]
Raise(s, e, m) == [state |-> s, exc |-> e, msg |-> m]

(***************************************************************************)
(* dict operations (insertion-ordered).                                    *)
(***************************************************************************)
Keys(d) == {d[i].key : i \in DOMAIN d}
Has(d, k) == k \in Keys(d)
IndexOf(d, k) == CHOOSE i \in DOMAIN d : d[i].key = k
Get(d, k) == d[IndexOf(d, k)].val
DictSet(d, k, v) ==
    IF Has(d, k) THEN [d EXCEPT ![IndexOf(d, k)].val = v]
    ELSE Append(d, [key |-> k, val |-> v])
KeepOthers(d, ks) == SelectSeq(d, LAMBDA e : e.key \notin ks)
DictDel(d, k) == KeepOthers(d, {k})

(***************************************************************************)
(* Product and its subclasses.                                             *)
(***************************************************************************)
Electronics(product_id, name, price, quantity_in_stock, brand, warranty_years) ==
    [class |-> "Electronics", _product_id |-> product_id, _name |-> name,
     _price |-> price, _quantity_in_stock |-> quantity_in_stock,
     brand |-> brand, warranty_years |-> warranty_years]

Grocery(product_id, name, price, quantity_in_stock, expiry_date) ==
    [class |-> "Grocery", _product_id |-> product_id, _name |-> name,
     _price |-> price, _quantity_in_stock |-> quantity_in_stock,
     expiry_date |-> expiry_date]

Clothing(product_id, name, price, quantity_in_stock, size, material) ==
    [class |-> "Clothing", _product_id |-> product_id, _name |-> name,
     _price |-> price, _quantity_in_stock |-> quantity_in_stock,
     size |-> size, material |-> material]

\* Faulty restock: the guard lets an amount of 0 through.
restock_accepts_zero(p, amount) ==
    IF amount < 0
    THEN Raise(p, "ValueError", "Restock amount must be at least 1")
    ELSE Return([p EXCEPT !._quantity_in_stock = @ + amount])

restock(p, amount) ==
    IF amount < 1
    THEN Raise(p, "ValueError", "Restock amount must be at least 1")
    ELSE Return([p EXCEPT !._quantity_in_stock = @ + amount])

\* Faulty sell: the stock check refuses to sell the last units.
sell_keeps_one(p, quantity) ==
    IF quantity < 1
    THEN Raise(p, "ValueError", "Sell quantity must be at least 1")
    ELSE IF quantity >= p._quantity_in_stock
    THEN Raise(p, "Exception", "Not enough stock to sell")
    ELSE Return([p EXCEPT !._quantity_in_stock = @ - quantity])

sell(p, quantity) ==
    IF quantity < 1
    THEN Raise(p, "ValueError", "Sell quantity must be at least 1")
    ELSE IF quantity > p._quantity_in_stock
    THEN Raise(p, "Exception", "Not enough stock to sell")
    ELSE Return([p EXCEPT !._quantity_in_stock = @ - quantity])

\* Faulty get_total_value: the quantity is left out.
get_total_value_unit(p) == p._price

get_total_value(p) == p._price * p._quantity_in_stock

Product_to_dict(p) ==
    [type |-> p.class, product_id |-> p._product_id, name |-> p._name,
     price |-> p._price, quantity_in_stock |-> p._quantity_in_stock]

\* dict.update: the keys of e are set to e's values, the others kept.
Update(d, e) ==
    [k \in DOMAIN d \cup DOMAIN e |-> IF k \in DOMAIN e THEN e[k] ELSE d[k]]

\* Faulty to_dict: Clothing writes its size under "material" too.
to_dict_size_twice(p) ==
    CASE p.class = "Electronics" ->
             Update(Product_to_dict(p),
                    [brand |-> p.brand, warranty_years |-> p.warranty_years])
      [] p.class = "Grocery" ->
             Update(Product_to_dict(p), [expiry_date |-> p.expiry_date])
      [] p.class = "Clothing" ->
             Update(Product_to_dict(p), [size |-> p.size, material |-> p.size])

to_dict(p) ==
    CASE p.class = "Electronics" ->
             Update(Product_to_dict(p),
                    [brand |-> p.brand, warranty_years |-> p.warranty_years])
      [] p.class = "Grocery" ->
             Update(Product_to_dict(p), [expiry_date |-> p.expiry_date])
      [] p.class = "Clothing" ->
             Update(Product_to_dict(p), [size |-> p.size, material |-> p.material])

\* datetime.strptime(s, "%Y-%m-%d"): the fields must form a calendar date.
IsLeap(y) == (y % 4 = 0 /\ y % 100 # 0) \/ y % 400 = 0
DaysIn(y, m) ==
    IF m = 2 THEN (IF IsLeap(y) THEN 29 ELSE 28)
    ELSE IF m \in {4, 6, 9, 11} THEN 30 ELSE 31
IsDate(s) == s[2] \in 1..12 /\ s[3] \in 1..DaysIn(s[1], s[2])
strptime(s) == <<s[1], s[2], s[3], 0>>

\* datetime.__lt__
Before(a, b) ==
    \E i \in 1..4 : a[i] < b[i] /\ \A j \in 1..(i - 1) : a[j] = b[j]

is_expired(p, today) == Before(strptime(p.expiry_date), today)

(***************************************************************************)
(* Inventory.                                                              *)
(***************************************************************************)
\* Faulty add_product: a duplicate id overwrites the stored product.
add_product_overwrites(d, product) ==
    IF product._product_id = ""
    THEN Raise(d, "ValueError", "Product ID cannot be empty")
    ELSE Return(DictSet(d, product._product_id, product))

add_product(d, product) ==
    IF product._product_id = ""
    THEN Raise(d, "ValueError", "Product ID cannot be empty")
    ELSE IF Has(d, product._product_id)
    THEN Raise(d, "Exception", "Duplicate product ID")
    ELSE Return(DictSet(d, product._product_id, product))

\* Faulty remove_product: an absent id is ignored instead of reported.
remove_product_silent(d, product_id) == Return(DictDel(d, product_id))

remove_product(d, product_id) ==
    IF Has(d, product_id)
    THEN Return(DictDel(d, product_id))
    ELSE Raise(d, "Exception", "Product ID not found")

\* The product object is mutated in place: the entry keeps its position.
sell_product(d, product_id, quantity) ==
    IF ~Has(d, product_id)
    THEN Raise(d, "Exception", "Product ID not found")
    ELSE LET r == sell(Get(d, product_id), quantity)
         IN  [state |-> DictSet(d, product_id, r.state),
              exc |-> r.exc, msg |-> r.msg]

restock_product(d, product_id, quantity) ==
    IF ~Has(d, product_id)
    THEN Raise(d, "Exception", "Product ID not found")
    ELSE LET r == restock(Get(d, product_id), quantity)
         IN  [state |-> DictSet(d, product_id, r.state),
              exc |-> r.exc, msg |-> r.msg]

\* sum(...) over the values in dict order, starting from 0.
RECURSIVE SumValues(_, _)
SumValues(d, i) ==
    IF i > Len(d) THEN 0 ELSE get_total_value(d[i].val) + SumValues(d, i + 1)

total_inventory_value(d) == SumValues(d, 1)

\* The list of expired ids is built first (strptime raises ValueError on a
\* string that is no date, before anything is deleted), then each is deleted.
remove_expired_products(d, today) ==
    LET groceries == {i \in DOMAIN d : d[i].val.class = "Grocery"}
        expired == {d[i].key : i \in {j \in groceries : is_expired(d[j].val, today)}}
    IN  IF \E i \in groceries : ~IsDate(d[i].val.expiry_date)
        THEN Raise(d, "ValueError", "day is out of range for month")
        ELSE Return(KeepOthers(d, expired))

\* json.dump of [p.to_dict() for p in self._products.values()]
save_to_file(d) ==
    [kind |-> "array", items |-> [i \in DOMAIN d |-> to_dict(d[i].val)]]

\* The keys one record is read by, in the order the code subscripts them.
BaseKeys == <<"product_id", "name", "price", "quantity_in_stock">>
KeysRead(ptype) ==
    CASE ptype = "Electronics" -> BaseKeys \o <<"brand", "warranty_years">>
      [] ptype = "Grocery" -> BaseKeys \o <<"expiry_date">>
      [] ptype = "Clothing" -> BaseKeys \o <<"size", "material">>
      [] OTHER -> <<>>

MissingKeys(item) ==
    IF "type" \notin DOMAIN item THEN <<"type">>
    ELSE SelectSeq(KeysRead(item.type), LAMBDA k : k \notin DOMAIN item)

FromItem(item) ==
    CASE item.type = "Electronics" ->
             Electronics(item.product_id, item.name, item.price,
                         item.quantity_in_stock, item.brand, item.warranty_years)
      [] item.type = "Grocery" ->
             Grocery(item.product_id, item.name, item.price,
                     item.quantity_in_stock, item.expiry_date)
      [] item.type = "Clothing" ->
             Clothing(item.product_id, item.name, item.price,
                      item.quantity_in_stock, item.size, item.material)

\* The loop of load_from_file over data[i..], d being _products so far.
RECURSIVE LoadItems(_, _, _)
LoadItems(d, data, i) ==
    IF i > Len(data) THEN Return(d)
    ELSE LET item == data[i]
         IN  IF MissingKeys(item) # <<>>
             THEN Raise(d, "KeyError", Head(MissingKeys(item)))
             ELSE IF item.type \notin {"Electronics", "Grocery", "Clothing"}
             THEN LoadItems(d, data, i + 1)
             ELSE LET p == FromItem(item)
                  IN  LoadItems(DictSet(d, p._product_id, p), data, i + 1)

\* Faulty load_from_file: _products is not cleared before the records are read.
load_from_file_merges(d, file) ==
    CASE file.kind = "absent" ->
             Raise(d, "FileNotFoundError", "No such file or directory")
      [] file.kind = "garbage" ->
             Raise(d, "JSONDecodeError", "Expecting value")
      [] file.kind = "number" ->
             Raise(d, "TypeError", "'int' object is not iterable")
      [] file.kind = "array" ->
             LoadItems(d, file.items, 1)

load_from_file(d, file) ==
    CASE file.kind = "absent" ->
             Raise(d, "FileNotFoundError", "No such file or directory")
      [] file.kind = "garbage" ->
             Raise(d, "JSONDecodeError", "Expecting value")
      [] file.kind = "number" ->
             Raise(<<>>, "TypeError", "'int' object is not iterable")
      [] file.kind = "array" ->
             LoadItems(<<>>, file.items, 1)

(***************************************************************************)
(* Inputs of the exploration: the products a caller constructs, the ids    *)
(* and quantities it passes, and the files found on disk.                  *)
(***************************************************************************)
Phone == Electronics("E1", "Phone", 100, 2, "Acme", 1)
MilkOld == Grocery("A", "Milk", 3, 1, <<2024, 12, 31>>)
MilkToday == Grocery("A", "Milk", 3, 1, <<2025, 1, 1>>)
Shirt == Clothing("A", "Shirt", 5, 1, "M", "Cotton")
Nameless == Clothing("", "Shirt", 5, 1, "M", "Cotton")

AddInputs == {Phone, MilkOld, MilkToday, Shirt, Nameless}
OpIds == {"A", "E1", "G"}
Amounts == (0..MaxStock) \cup {5}

NoProduct == [class |-> "None"]
NoFile == [kind |-> "absent", items |-> <<>>]
Array(items) == [kind |-> "array", items |-> items]

ShirtItem(q) ==
    [type |-> "Clothing", product_id |-> "A", name |-> "Shirt", price |-> 5,
     quantity_in_stock |-> q, size |-> "M", material |-> "Cotton"]

Disk ==
    [path \in {"inventory.json", "missing.json", "garbage.json", "number.json", "no_type.json",
               "no_brand.json", "legacy.json", "negative.json", "empty_id.json",
               "bad_date.json"} |->
        CASE path = "inventory.json" ->
                 Array(<<[type |-> "Electronics", product_id |-> "E1",
                          name |-> "Phone", price |-> 100, quantity_in_stock |-> 2,
                          brand |-> "Acme", warranty_years |-> 1],
                         ShirtItem(1),
                         [type |-> "Grocery", product_id |-> "G", name |-> "Rice",
                          price |-> 3, quantity_in_stock |-> 1,
                          expiry_date |-> <<2025, 6, 1>>]>>)
          [] path = "missing.json" -> NoFile
          [] path = "garbage.json" -> [kind |-> "garbage", items |-> <<>>]
          [] path = "number.json" -> [kind |-> "number", items |-> <<>>]
          [] path = "no_type.json" ->
                 Array(<<ShirtItem(1),
                         [product_id |-> "G", name |-> "Rice", price |-> 3,
                          quantity_in_stock |-> 1, expiry_date |-> <<2025, 6, 1>>]>>)
          [] path = "no_brand.json" ->
                 Array(<<[type |-> "Electronics", product_id |-> "E1",
                          name |-> "Phone", price |-> 100, quantity_in_stock |-> 2,
                          warranty_years |-> 1]>>)
          [] path = "legacy.json" ->
                 Array(<<[type |-> "Toy", product_id |-> "G", name |-> "Kite",
                          price |-> 3, quantity_in_stock |-> 1],
                         ShirtItem(1), ShirtItem(2)>>)
          [] path = "negative.json" -> Array(<<ShirtItem(-1)>>)
          [] path = "empty_id.json" ->
                 Array(<<[type |-> "Grocery", product_id |-> "", name |-> "Rice",
                          price |-> 3, quantity_in_stock |-> 1,
                          expiry_date |-> <<2025, 6, 1>>]>>)
          [] path = "bad_date.json" ->
                 Array(<<[type |-> "Grocery", product_id |-> "G", name |-> "Rice",
                          price |-> 3, quantity_in_stock |-> 1,
                          expiry_date |-> <<2025, 2, 30>>]>>)]

Paths == DOMAIN Disk
SavePaths == {"inventory.json"}

(***************************************************************************)
(* The state machine: one action per method of Inventory, called by the    *)
(* session that owns the inventory.                                        *)
(***************************************************************************)
Init ==
    /\ products = <<>>
    /\ files = Disk
    /\ now = <<2025, 1, 1, 0>>
    /\ last = [op |-> "Inventory", id |-> "", n |-> 0, arg |-> NoProduct,
               exc |-> "", msg |-> "", value |-> 0]
    /\ pre = <<>>
    /\ saved = [path \in Paths |-> [written |-> FALSE, inventory |-> <<>>]]
    /\ calls = 0

\* A call that touches only the inventory: r is its outcome.
Finish(op, id, n, arg, r, value) ==
    /\ calls < MaxCalls
    /\ calls' = calls + 1
    /\ products' = r.state
    /\ pre' = products
    /\ last' = [op |-> op, id |-> id, n |-> n, arg |-> arg,
                exc |-> r.exc, msg |-> r.msg, value |-> value]

AddProduct ==
    \E p \in AddInputs :
        /\ Finish("add_product", p._product_id, 0, p, add_product(products, p), 0)
        /\ UNCHANGED <<files, now, saved>>

RemoveProduct ==
    \E id \in OpIds :
        /\ Finish("remove_product", id, 0, NoProduct, remove_product(products, id), 0)
        /\ UNCHANGED <<files, now, saved>>

SellProduct ==
    \E id \in OpIds, q \in Amounts :
        /\ Finish("sell_product", id, q, NoProduct, sell_product(products, id, q), 0)
        /\ UNCHANGED <<files, now, saved>>

RestockProduct ==
    \E id \in OpIds, q \in Amounts :
        LET r == restock_product(products, id, q)
        IN  /\ \A i \in DOMAIN r.state :
                   r.state[i].val._quantity_in_stock <= MaxStock
            /\ Finish("restock_product", id, q, NoProduct, r, 0)
            /\ UNCHANGED <<files, now, saved>>

TotalInventoryValue ==
    /\ Finish("total_inventory_value", "", 0, NoProduct, Return(products),
              total_inventory_value(products))
    /\ UNCHANGED <<files, now, saved>>

RemoveExpiredProducts ==
    /\ Finish("remove_expired_products", "", 0, NoProduct,
              remove_expired_products(products, now), 0)
    /\ UNCHANGED <<files, now, saved>>

\* open(filename, "w") succeeds and json.dump writes the whole document.
SaveToFile ==
    \E path \in SavePaths :
        /\ Finish("save_to_file", path, 0, NoProduct, Return(products), 0)
        /\ files' = [files EXCEPT ![path] = save_to_file(products)]
        /\ saved' = [saved EXCEPT ![path] = [written |-> TRUE, inventory |-> products]]
        /\ UNCHANGED now

\* open(filename, "w") fails (the path cannot be written): nothing is written.
SaveToFileDenied ==
    \E path \in SavePaths :
        /\ Finish("save_to_file", path, 0, NoProduct,
                  Raise(products, "OSError", "Permission denied"), 0)
        /\ UNCHANGED <<files, now, saved>>

LoadFromFile ==
    \E path \in Paths :
        /\ Finish("load_from_file", path, 0, NoProduct,
                  load_from_file(products, files[path]), 0)
        /\ UNCHANGED <<files, now, saved>>

\* Time passes between calls: the session starts at midnight of 2025-01-01
\* exactly and goes on later that day.
Tick ==
    /\ now = <<2025, 1, 1, 0>>
    /\ now' = <<2025, 1, 1, 1>>
    /\ UNCHANGED <<products, files, last, pre, saved, calls>>

Next ==
    \/ AddProduct
    \/ RemoveProduct
    \/ SellProduct
    \/ RestockProduct
    \/ TotalInventoryValue
    \/ RemoveExpiredProducts
    \/ SaveToFile
    \/ SaveToFileDenied
    \/ LoadFromFile
    \/ Tick

Spec == Init /\ [][Next]_vars

(***************************************************************************)
(* Vocabulary of the properties.                                           *)
(***************************************************************************)
\* The error kind a caller tells from the exception class and its message.
ErrorKind(e) ==
    CASE e.exc = "" -> "None"
      [] e.exc = "ValueError" -> "InvalidArgument"
      [] e.exc = "Exception" /\ e.msg = "Product ID not found" -> "NotFound"
      [] e.exc = "Exception" /\ e.msg = "Duplicate product ID" -> "DuplicateId"
      [] e.exc = "Exception" /\ e.msg = "Not enough stock to sell" -> "InsufficientStock"
      [] e.exc = "FileNotFoundError" -> "FileNotFound"
      [] e.exc = "JSONDecodeError" -> "ParseError"
      [] e.exc = "OSError" -> "IOError"
      [] OTHER -> "Other"

\* An inventory as a set of (id, product) pairs, its order forgotten.
Entries(d) == {d[i] : i \in DOMAIN d}
Stock(d, id) == Get(d, id)._quantity_in_stock
\* d with the stock of id replaced by q, everything else as it is.
WithStock(d, id, q) ==
    {IF e.key = id THEN [e EXCEPT !.val._quantity_in_stock = q] ELSE e : e \in Entries(d)}
DateOf(t) == <<t[1], t[2], t[3]>>
DateBefore(a, b) ==
    \/ a[1] < b[1]
    \/ a[1] = b[1] /\ a[2] < b[2]
    \/ a[1] = b[1] /\ a[2] = b[2] /\ a[3] < b[3]
RECURSIVE SetSum(_)
SetSum(S) ==
    IF S = {} THEN 0
    ELSE LET e == CHOOSE x \in S : TRUE
         IN  e.val._price * e.val._quantity_in_stock + SetSum(S \ {e})
Classes(d) == {d[i].val.class : i \in DOMAIN d}

(***************************************************************************)
(* Properties.                                                             *)
(***************************************************************************)

\* C1: load_from_file is all-or-nothing: whenever a call to it fails (the
\* path does not exist, the content is not JSON, or a record lacks "type" or
\* a field of its variant), the inventory after the call is exactly the
\* inventory before it.
C1_LoadAllOrNothing ==
    (last.op = "load_from_file" /\ last.exc # "") => products = pre

\* C2: save/load round trip: when load_from_file reads a path that
\* save_to_file wrote from a non-empty inventory X, the load succeeds and the
\* inventory holds exactly the products of X, by id, class and every field,
\* whatever it held just before the load.
C2_RoundTrip ==
    (/\ last.op = "load_from_file"
     /\ saved[last.id].written
     /\ saved[last.id].inventory # <<>>)
    => /\ last.exc = ""
       /\ Entries(products) = Entries(saved[last.id].inventory)
       /\ Len(products) = Len(saved[last.id].inventory)

\* A load of a file saved from an inventory of all three variants, into an
\* inventory that had changed since the save.
C2_Witness ==
    /\ last.op = "load_from_file"
    /\ saved[last.id].written
    /\ Classes(saved[last.id].inventory) = {"Electronics", "Grocery", "Clothing"}
    /\ Entries(pre) # Entries(saved[last.id].inventory)
    /\ Entries(products) = Entries(saved[last.id].inventory)

\* C3: sell_product(id, quantity): id absent -> NotFound; else quantity < 1
\* -> InvalidArgument; else quantity > stock -> InsufficientStock; else the
\* stock of that product decreases by exactly quantity.  A failing call
\* leaves the whole inventory unchanged, and the three failures are of
\* different kinds for the caller.
C3_SellOutcomes ==
    last.op = "sell_product" =>
        IF ~Has(pre, last.id)
        THEN ErrorKind(last) = "NotFound" /\ products = pre
        ELSE IF last.n < 1
        THEN ErrorKind(last) = "InvalidArgument" /\ products = pre
        ELSE IF last.n > Stock(pre, last.id)
        THEN ErrorKind(last) = "InsufficientStock" /\ products = pre
        ELSE /\ ErrorKind(last) = "None"
             /\ Entries(products) = WithStock(pre, last.id, Stock(pre, last.id) - last.n)

\* One unit sold out of two, beside another product.
C3_Witness ==
    /\ last.op = "sell_product"
    /\ last.exc = ""
    /\ last.n = 1
    /\ Len(pre) > 1
    /\ Stock(pre, last.id) = 2
    /\ Stock(products, last.id) = 1

\* C4: restock_product(id, amount) with id present and amount >= 1 raises
\* the stock of that product by exactly amount and changes no other field,
\* no other product and not the set of ids; amount < 1 fails with
\* InvalidArgument and an absent id with NotFound, both changing nothing.
C4_RestockFrame ==
    last.op = "restock_product" =>
        IF ~Has(pre, last.id)
        THEN ErrorKind(last) = "NotFound" /\ products = pre
        ELSE IF last.n < 1
        THEN ErrorKind(last) = "InvalidArgument" /\ products = pre
        ELSE /\ ErrorKind(last) = "None"
             /\ Entries(products) = WithStock(pre, last.id, Stock(pre, last.id) + last.n)
             /\ Keys(products) = Keys(pre)

\* A restock by one, beside another product.
C4_Witness ==
    /\ last.op = "restock_product"
    /\ last.exc = ""
    /\ last.n = 1
    /\ Len(pre) > 1
    /\ Stock(products, last.id) = Stock(pre, last.id) + 1

\* C5: add_product(product) fails with InvalidArgument when the id is empty
\* and with DuplicateId when the id is present, leaving the inventory
\* unchanged: the id still maps to the one product stored before, not to the
\* rejected one.  Otherwise the product is inserted under its id and no other
\* entry changes.
C5_AddOutcomes ==
    last.op = "add_product" =>
        IF last.arg._product_id = ""
        THEN ErrorKind(last) = "InvalidArgument" /\ products = pre
        ELSE IF Has(pre, last.arg._product_id)
        THEN /\ ErrorKind(last) = "DuplicateId"
             /\ products = pre
             /\ Cardinality({i \in DOMAIN products :
                                products[i].key = last.arg._product_id}) = 1
             /\ Get(products, last.arg._product_id) = Get(pre, last.arg._product_id)
        ELSE /\ ErrorKind(last) = "None"
             /\ Entries(products) =
                    Entries(pre) \cup {[key |-> last.arg._product_id, val |-> last.arg]}

\* A duplicate add of a product that differs from the one stored.
C5_Witness ==
    /\ last.op = "add_product"
    /\ ErrorKind(last) = "DuplicateId"
    /\ Has(products, last.id)
    /\ Get(products, last.id) # last.arg

\* C6: remove_expired_products, called on the reference date (today), removes
\* exactly the Grocery products whose expiry date is strictly earlier than
\* the reference date as calendar dates: one that expires on the reference
\* date is retained, other variants are never removed, every retained
\* product is unchanged, and the call succeeds.  (Stated for inventories
\* whose groceries all carry calendar dates.)
C6_RemoveExpiredByDate ==
    (/\ last.op = "remove_expired_products"
     /\ \A e \in Entries(pre) : e.val.class = "Grocery" => IsDate(e.val.expiry_date))
    => /\ last.exc = ""
       /\ Entries(products) =
              {e \in Entries(pre) :
                  ~(/\ e.val.class = "Grocery"
                    /\ DateBefore(e.val.expiry_date, DateOf(now)))}

\* C7: in every reachable state total_inventory_value() is the sum over the
\* stored products of price * quantity, 0 for an empty inventory; calling it
\* changes nothing; a failed call leaves it as it was; and with only E1 at
\* price 100 in stock it is 200 at quantity 2 and 100 at quantity 1.
C7_TotalValue ==
    /\ total_inventory_value(products) = SetSum(Entries(products))
    /\ products = <<>> => total_inventory_value(products) = 0
    /\ last.op = "total_inventory_value" =>
           /\ last.exc = ""
           /\ last.value = SetSum(Entries(pre))
           /\ products = pre
    /\ last.exc # "" /\ last.op \in {"add_product", "remove_product",
                                     "sell_product", "restock_product"} =>
           total_inventory_value(products) = total_inventory_value(pre)
    /\ \A q \in 1..2 :
           (/\ Keys(products) = {"E1"}
            /\ Get(products, "E1")._price = 100
            /\ Stock(products, "E1") = q)
           => total_inventory_value(products) = 100 * q

\* E1 added at price 100 and quantity 2, one sold, then a sale of 5 refused:
\* the value is 100.
C7_Witness ==
    /\ last.op = "sell_product"
    /\ last.n = 5
    /\ ErrorKind(last) = "InsufficientStock"
    /\ Keys(products) = {"E1"}
    /\ Get(products, "E1")._price = 100
    /\ Stock(products, "E1") = 1
    /\ total_inventory_value(products) = 100

\* C8: the quantity in stock of every product of the inventory is >= 0 in
\* every reachable state.
C8_StockNonNegative ==
    \A i \in DOMAIN products : products[i].val._quantity_in_stock >= 0

\* C9: in every reachable state every key of the mapping is the id of the
\* product stored under it, and that id is not empty.
C9_KeysAreIds ==
    \A i \in DOMAIN products :
        /\ products[i].key = products[i].val._product_id
        /\ products[i].key # ""

\* C10: remove_product(id) of a present id deletes exactly that entry and
\* leaves every other product unchanged; of an absent id it fails with
\* NotFound and changes nothing; and add_product(p) of an id not yet present
\* followed by remove_product(p.id) restores the inventory that was there
\* before the add.
C10_RemoveOutcomes ==
    last.op = "remove_product" =>
        IF Has(pre, last.id)
        THEN /\ ErrorKind(last) = "None"
             /\ Entries(products) = {e \in Entries(pre) : e.key # last.id}
             /\ Len(products) = Len(pre) - 1
        ELSE ErrorKind(last) = "NotFound" /\ products = pre

C10_AddThenRemove ==
    (/\ last.op = "add_product"
     /\ last.exc = ""
     /\ calls' = calls + 1
     /\ last'.op = "remove_product"
     /\ last'.id = last.id)
    => (last'.exc = "" /\ products' = pre)

C10_Remove == []C10_RemoveOutcomes /\ [][C10_AddThenRemove]_vars

\* A present id removed from among others.
C10_Witness ==
    /\ last.op = "remove_product"
    /\ last.exc = ""
    /\ Has(pre, last.id)
    /\ products # <<>>

\* The product a record of a known variant describes: its discriminator as
\* the class, its base fields, and the fields of its variant.
VariantFields(type) ==
    CASE type = "Electronics" -> {"brand", "warranty_years"}
      [] type = "Grocery" -> {"expiry_date"}
      [] type = "Clothing" -> {"size", "material"}
Described(item) ==
    [k \in {"class", "_product_id", "_name", "_price", "_quantity_in_stock"}
           \cup VariantFields(item.type) |->
        CASE k = "class" -> item.type
          [] k = "_product_id" -> item.product_id
          [] k = "_name" -> item.name
          [] k = "_price" -> item.price
          [] k = "_quantity_in_stock" -> item.quantity_in_stock
          [] OTHER -> item[k]]
\* The records of a known variant, and among them the last one of each id.
Known(data) ==
    {i \in DOMAIN data : data[i].type \in {"Electronics", "Grocery", "Clothing"}}
Effective(data) ==
    {i \in Known(data) :
        \A j \in Known(data) : data[j].product_id = data[i].product_id => j <= i}

\* C11: a successful load_from_file replaces the whole mapping: afterwards
\* the inventory holds exactly one product per record of the file whose
\* discriminator is Electronics, Grocery or Clothing, keyed by the record's
\* product_id, a later record of the same product_id replacing an earlier
\* one; records of any other discriminator are skipped without failing the
\* load; and no product that was in memory before survives unless the file
\* holds it.
C11_LoadReplaces ==
    (last.op = "load_from_file" /\ last.exc = "") =>
        LET data == files[last.id].items
        IN  /\ files[last.id].kind = "array"
            /\ Entries(products) =
                   {[key |-> data[i].product_id, val |-> Described(data[i])] :
                       i \in Effective(data)}
            /\ Len(products) = Cardinality(Effective(data))

\* A successful load of a file with a record of an unknown discriminator and
\* two records of one id, into an inventory holding an id the file lacks.
C11_Witness ==
    /\ last.op = "load_from_file"
    /\ last.exc = ""
    /\ LET data == files[last.id].items
       IN  /\ Known(data) # DOMAIN data
           /\ Effective(data) # Known(data)
           /\ Effective(data) # {}
    /\ Keys(pre) \ Keys(products) # {}

====
